---- MODULE Spec2Model ----
(***************************************************************************)
(* q-explore web client: the persisted exploration history                 *)
(* (localStorage 'q-explore-history'), the unit layer (metric / imperial   *)
(* radius display over a canonical metres value) and the replay of a       *)
(* stored record, as implemented in static/js/main.js, generate.js (with   *)
(* history.js) and map.js / settings.js.                                   *)
(*                                                                         *)
(* Numbers.  Every radius, whether a display value of an input control or  *)
(* a metres value, is carried as a fixed-point integer with one decimal:   *)
(* the model value is the JavaScript number times ten ("tenths").  A       *)
(* product the code leaves unrounded (getRadiusInMeters under imperial) is *)
(* rounded to the nearest tenth.  Timestamps are instants (integers): the  *)
(* code compares new Date(timestamp) values.  Latitudes and longitudes are *)
(* whole degrees.                                                          *)
(***************************************************************************)
EXTENDS Integers, Sequences, FiniteSets, TLC

VARIABLES
    history,        \* localStorage['q-explore-history'], parsed: a sequence of records
    settings,       \* localStorage['q-explore-settings'], parsed; NoSettings when absent
    selectedLat,    \* state.selectedLat (Null until a location is chosen)
    selectedLng,    \* state.selectedLng
    selectedType,   \* state.selectedType
    exported,       \* the records of the last file exportHistory() downloaded
    gpxFile,        \* the waypoints of the last file exportHistoryGpx() downloaded
    units,          \* state.units
    unitLabel,      \* text of the .unit-label elements
    radiusInput,    \* elements.radiusInput.value, in tenths of the displayed unit
    defaultRadius,  \* #default-radius value, in tenths of the displayed unit
    modeSelect,     \* elements.modeSelect.value
    currentResult,  \* state.currentResult (NoResult until a result is shown)
    resultShown,    \* the result panel is visible (not 'hidden')
    activeTab,      \* the tab buttons and the tab contents that carry 'active'
    loading,        \* the generate button is disabled / 'Generating...'
    pendingGen,     \* <<params>> of the /api/generate request in flight, else <<>>
    sent,           \* the last request body handed to fetch (NoRequest before any)
    lastAlert,      \* the text class of the last alert() shown
    importReport,   \* what the last importHistory run reported and did
    lastOp,         \* the store operation completed last and its argument
    historyList,    \* the items rendered in #history-list: <<index, id>> of each
    pendingSync,    \* the /api/history fetches in flight, each with the store as it
                    \* was when the fetch was issued
    conversion,     \* a radius taken through UNIT_CONVERSIONS: metres, displayed, read back
    opsLeft         \* counted operations the exploration may still complete (model bound)

vars == <<opsLeft, history, settings, selectedLat, selectedLng, units, unitLabel,
          radiusInput, defaultRadius, modeSelect, currentResult, resultShown,
          activeTab, loading, pendingGen, sent, lastAlert, importReport, lastOp,
          conversion, pendingSync, historyList, selectedType, exported,
          gpxFile>>

storeVars == <<history, importReport, lastOp>>
uiVars == <<selectedLat, selectedLng, units, unitLabel, radiusInput, defaultRadius,
           modeSelect>>
viewVars == <<currentResult, resultShown, activeTab>>

(***************************************************************************)
(* Bounds of the model                                                     *)
(***************************************************************************)
\* completed store operations explored from the initial state
MaxOps == 2
\* the same, where only generations and server merges are explored
MaxMergeOps == 3
\* longest list of entries drawn for a server payload or an import file
MaxPayload == 2
\* number of records in the large payload used to fill the store
BulkLen == 100
\* operations explored where units, settings and replay are exercised
MaxUnitOps == 2
\* largest value (in tenths) the exploration lets the radius control take
MaxRadiusInput == 1000000
\* operations explored where the stored blobs are overwritten and reloaded
MaxStorageOps == 2
\* generation requests completed where the generate control is followed
MaxGenerateOps == 2
\* operations completed, and /api/history fetches in flight at once, where
\* merges overlap with adds and with each other
MaxOverlapOps == 3
MaxInFlight == 2
\* the small canonical values (whole metres, from 2 up) taken through the
\* conversion table besides 0, 1, 3000 and 1609340
MaxSmallMeters == 25

(***************************************************************************)
(* Program constants                                                       *)
(***************************************************************************)
\* "Keep only last 100 entries"
HistoryCap == 100
\* parseFloat(...) || 3000, data-default-meters fallback
DefaultRadiusMeters == 3000
\* const METERS_PER_MILE = 1609.34 (times 100), MILES_PER_METER = 0.000621371
\* (times 10^9)
MetersPerMileE2 == 160934
MilesPerMeterE9 == 621371
\* JavaScript null / undefined where the code tests a number or an id for it
Null == 999
NoId == 0

Tenths(x) == x * 10

(***************************************************************************)
(* Values                                                                  *)
(***************************************************************************)
\* ids of the records a generation, a server payload or a file may carry
SmallIds == {1, 2, 3}
BulkIds == {10 + i : i \in 1..BulkLen}

\* the instant a record was generated at; ids 1, 2, 3 are A@10, B@20, C@5
TimestampOf(id) ==
    IF id = 1 THEN 10
    ELSE IF id = 2 THEN 20
    ELSE IF id = 3 THEN 5
    ELSE 6 + (id % 13)

NoRequest == [undefined |-> TRUE]
NoResult == [undefined |-> TRUE]
NoSettings == [undefined |-> TRUE]

\* the request a server-held or exported record carries
RemoteRequest(id) ==
    [lat |-> 10, lng |-> 0 - 20,
     radius |-> IF id = 3 THEN Tenths(1000) ELSE Tenths(DefaultRadiusMeters),
     mode |-> IF id = 2 THEN "flower_power" ELSE "standard"]

Coords(id) == [lat |-> 10 + (id % 5), lng |-> 20 + (id % 7)]

\* winners: result type -> winning point (winner.result.coords); id 3 has
\* no attractor, id 4 no winner at all, id 5 a blind spot and no attractor
WinnersOf(id) ==
    IF id = 3
    THEN [t \in {"void"} |-> Coords(id)]
    ELSE IF id = 4
    THEN [t \in {} |-> Coords(id)]
    ELSE IF id = 5
    THEN [t \in {"blind_spot", "void"} |-> Coords(id)]
    ELSE [t \in {"attractor", "void"} |-> Coords(id)]

\* a well-formed stored record {id, timestamp, request, winners}
RemoteRecord(id) ==
    [id |-> id, timestamp |-> TimestampOf(id),
     request |-> RemoteRequest(id), winners |-> WinnersOf(id)]

IdsOf(h) == {h[i].id : i \in 1..Len(h)}

\* a history blob JSON.parse rejects ("unparseable") or parses to something
\* that is not an array ("notArray"); a settings blob JSON.parse rejects
Corrupted(kind) == <<[corrupt |-> kind]>>
CorruptSettings == [corrupt |-> "unparseable"]

\* JSON.parse(localStorage.getItem('q-explore-history') || '[]') gives an array
Parses(h) == IF h = <<>> THEN TRUE ELSE "corrupt" \notin DOMAIN h[1]

(***************************************************************************)
(* Array.prototype.sort((a, b) => new Date(b.timestamp) -                  *)
(* new Date(a.timestamp)): a stable sort, newest first.                    *)
(***************************************************************************)
Timestamps(s) == {s[i].timestamp : i \in 1..Len(s)}

Newest(T) == CHOOSE t \in T : \A u \in T : u <= t

\* the records of s by descending timestamp; records with equal timestamps
\* keep the order they have in s
RECURSIVE SortedOver(_, _)
SortedOver(s, T) ==
    IF T = {} THEN <<>>
    ELSE LET t == Newest(T)
             At(r) == r.timestamp = t
         IN SelectSeq(s, At) \o SortedOver(s, T \ {t})

\* the sort with the comparator's operands swapped (a - b): oldest first
SortByTimestampAsc(s) ==
    LET d == SortedOver(s, Timestamps(s))
    IN [k \in 1..Len(d) |-> d[Len(d) + 1 - k]]

SortByTimestampDesc(s) == SortedOver(s, Timestamps(s))

\* a cut that keeps the last 100 positions instead of the first
KeepLast(s) ==
    IF Len(s) > HistoryCap THEN SubSeq(s, Len(s) - HistoryCap + 1, Len(s)) ELSE s

\* if (a.length > 100) a.length = 100
Truncate(s) == IF Len(s) > HistoryCap THEN SubSeq(s, 1, HistoryCap) ELSE s

(***************************************************************************)
(* updateHistoryDisplay(): rendering reads entry.request.mode of every     *)
(* entry that has a winner, so a stored record without a request makes it  *)
(* throw a TypeError (after the store was already written).                *)
(***************************************************************************)
\* entry.winners holds a winner
HasWinner(entry) == DOMAIN entry.winners # {}

DisplayThrows(h) ==
    \E i \in 1..Len(h) : HasWinner(h[i]) /\ h[i].request = NoRequest

\* the .history-item elements of a completed render: data-index (counted
\* from 1 here) and data-id of each entry that has a winner
Render(h) ==
    LET Shown(item) == HasWinner(h[item.index])
    IN SelectSeq([i \in 1..Len(h) |-> [index |-> i, id |-> h[i].id]], Shown)

\* updateHistoryDisplay(): innerHTML is assigned at the end, so a render
\* that throws (JSON.parse, entry.request.mode) leaves the list as it was
updateHistoryDisplay(list, h) ==
    IF ~Parses(h) THEN list ELSE IF DisplayThrows(h) THEN list ELSE Render(h)

(***************************************************************************)
(* saveToHistory(result): unshift the record, pop once when over 100       *)
(***************************************************************************)
HistoryEntry(result) ==
    [id |-> result.id, timestamp |-> result.timestamp,
     request |-> result.request, winners |-> result.winners]

\* saveToHistory without its length check
NeverPop(h) == h

PopIfOver(h) == IF Len(h) > HistoryCap THEN SubSeq(h, 1, Len(h) - 1) ELSE h

\* a save that skips a result whose id is already stored
SaveUnlessKnown(h, result) ==
    IF result.id \in IdsOf(h) THEN h ELSE PopIfOver(<<HistoryEntry(result)>> \o h)

saveToHistory(h, result) == PopIfOver(<<HistoryEntry(result)>> \o h)

(***************************************************************************)
(* syncHistoryFromServer(): the part after the awaited fetch.  A server    *)
(* entry is {response: {id, metadata: {timestamp}, request, winners}};     *)
(* shape names what the entry lacks.                                       *)
(***************************************************************************)
ServerEntry(shape, id) == [shape |-> shape, id |-> id]

\* entry.response.id / entry.response.metadata.timestamp raise a TypeError
EntryThrows(e, localIds) ==
    \/ e.shape = "noResponse"
    \/ e.shape = "noMetadata" /\ e.id \notin localIds

SyncThrows(h, entries) ==
    IF Parses(h)
    THEN \E k \in 1..Len(entries) : EntryThrows(entries[k], IdsOf(h))
    ELSE TRUE

\* the record pushed for an entry whose id is not in localIds
SyncRecord(e) ==
    IF e.shape = "noId"
    THEN [RemoteRecord(1) EXCEPT !.id = NoId]
    ELSE RemoteRecord(e.id)

EntryId(e) == IF e.shape = "noId" THEN NoId ELSE e.id

\* the forEach without the localIds test: every entry is pushed
SyncPushedAll(entries, localIds) ==
    [k \in 1..Len(entries) |-> SyncRecord(entries[k])]

\* the records the forEach pushes, in payload order
SyncPushed(entries, localIds) ==
    LET New(e) == EntryId(e) \notin localIds
        kept == SelectSeq(entries, New)
    IN [k \in 1..Len(kept) |-> SyncRecord(kept[k])]

\* localIds is built once, before the forEach
SyncMerged(h, entries) ==
    Truncate(SortByTimestampDesc(h \o SyncPushed(entries, IdsOf(h))))

syncHistoryFromServer(h, entries) ==
    IF SyncThrows(h, entries) THEN h ELSE SyncMerged(h, entries)

\* how the awaited fetch can end short of a processed payload: the fetch
\* rejects, response.ok is false, response.json() rejects, data.entries is
\* not an array
FetchFailures == {"rejected", "notOk", "badJson", "noEntries"}

\* a run that wrote whatever entries had arrived when the fetch went wrong
SyncAfterFetchEager(h, outcome, entries) ==
    IF outcome \in {"ok", "badJson"} THEN SyncMerged(h, entries) ELSE h

\* the whole function: nothing is written unless the payload arrived and
\* the forEach ran to its end
SyncAfterFetch(h, outcome, entries) ==
    IF outcome = "ok" THEN syncHistoryFromServer(h, entries) ELSE h

(***************************************************************************)
(* importHistory(): input.onchange.  A file entry is a stored record as    *)
(* exported; shape names what it lacks ("null": the array element is null).*)
(***************************************************************************)
FileEntry(shape, id) == [shape |-> shape, id |-> id]

ImportThrows(imported) ==
    \E k \in 1..Len(imported) : imported[k].shape = "null"

\* entry.id && !existingIds.has(entry.id)
ImportAccepts(e, existingIds) ==
    /\ e.shape # "noId"
    /\ e.id \notin existingIds

\* existing.push(entry): the entry is stored as it is in the file
ImportRecord(e) ==
    IF e.shape = "noRequest"
    THEN [RemoteRecord(e.id) EXCEPT !.request = NoRequest]
    ELSE RemoteRecord(e.id)

ImportPushed(imported, existingIds) ==
    LET New(e) == ImportAccepts(e, existingIds)
        kept == SelectSeq(imported, New)
    IN [k \in 1..Len(kept) |-> ImportRecord(kept[k])]

ImportMerged(h, imported) ==
    Truncate(SortByTimestampDesc(h \o ImportPushed(imported, IdsOf(h))))

\* removeItem whatever confirm() returned
ClearUnasked(h, confirmed) == <<>>

\* clearHistory(): removeItem when confirm() returned true; the next read
\* parses '[]'
clearHistory(h, confirmed) == IF confirmed THEN <<>> ELSE h

\* the filter with its test reversed (entry.id === id)
KeepOnly(h, id) ==
    LET Same(entry) == entry.id = id
    IN SelectSeq(h, Same)

\* deleteHistoryEntry(id): history.filter(entry => entry.id !== id)
FilterOut(h, id) ==
    LET Other(entry) == entry.id # id
    IN SelectSeq(h, Other)

(***************************************************************************)
(* Unit layer (main.js)                                                    *)
(***************************************************************************)
\* floor(a / b + 1/2) for a >= 0 and even b: Math.round, toFixed
RoundDiv(a, b) == (a + b \div 2) \div b

\* parseFloat(value) || 3000
ParseFloatOrDefault(v) == IF v = 0 THEN Tenths(DefaultRadiusMeters) ELSE v

\* v * METERS_PER_MILE, to the nearest tenth (the product is split so that it
\* stays within 32 bits)
TimesMetersPerMile(v) ==
    (v \div 1000) * (MetersPerMileE2 * 10)
        + RoundDiv((v % 1000) * MetersPerMileE2, 100)

\* (meters * MILES_PER_METER).toFixed(1): tenths of metres to tenths of miles
\* (the product is split so that it stays within 32 bits)
MilesFromMeters(v) ==
    LET high == (v \div 1000000) * MilesPerMeterE9
        rest == v % 1000000
        low == (rest \div 1000) * MilesPerMeterE9
                   + ((rest % 1000) * MilesPerMeterE9 + 500000000) \div 1000
    IN high \div 1000 + ((high % 1000) * 1000 + low) \div 1000000

\* Math.round(miles * METERS_PER_MILE): tenths of miles to whole metres
MetersFromMiles(v) ==
    Tenths((v \div 1000) * MetersPerMileE2 + RoundDiv((v % 1000) * MetersPerMileE2, 1000))

\* the unit systems the client supports (the options of #unit-select, the
\* data-metric / data-imperial attributes of the controls)
SupportedSystems == {"metric", "imperial"}

\* the text the .unit-label elements carry in the markup, and their
\* data-metric / data-imperial attributes
MarkupLabel == "meters"
UnitLabels == [metric |-> "meters", imperial |-> "miles"]

\* updateAllUnits / applyCurrentUnits, one .unit-label: the text is set when
\* the label has an attribute for the system
LabelAfter(label, system) ==
    IF system \in SupportedSystems THEN UnitLabels[system] ELSE label

\* updateAllUnits, one .unit-value input: value -> metres -> new unit; an
\* input without a unit type for either system is left alone
ConvertValue(fromSystem, toSystem, v) ==
    IF fromSystem = toSystem \/ ~({fromSystem, toSystem} \subseteq SupportedSystems)
    THEN v
    ELSE IF toSystem = "imperial" THEN MilesFromMeters(v)
    ELSE MetersFromMiles(v)

\* formatRadius(meters): the number shown, in tenths
formatRadius(u, meters) ==
    IF u = "imperial" THEN MilesFromMeters(meters) ELSE Tenths(RoundDiv(meters, 10))

\* getRadiusInMeters()
RadiusInMeters(u, input) ==
    IF u = "imperial"
    THEN TimesMetersPerMile(ParseFloatOrDefault(input))
    ELSE ParseFloatOrDefault(input)

getRadiusInMeters == RadiusInMeters(units, radiusInput)

\* a test that lets every coordinate pass, null included
NeverFalsy(x) == FALSE

\* !x for a coordinate: null and 0 are both falsy
Falsy(x) == x = Null \/ x = 0

(***************************************************************************)
(* Tabs: the .tab buttons (data-tab) and the .tab-content elements (id)    *)
(***************************************************************************)
Tabs == {"generate", "history", "settings"}
TabContents == {"generate-tab", "history-tab", "settings-tab"}

\* content.id.replace('-tab', '')
ContentName(contentId) ==
    IF contentId = "generate-tab" THEN "generate"
    ELSE IF contentId = "history-tab" THEN "history"
    ELSE "settings"

\* the markup: the generate tab is the active one
MarkupActive == [buttons |-> {"generate"}, contents |-> {"generate-tab"}]

\* a switch that adds the class to the tab named and takes it from none
SwitchTabAdding(active, tabName) ==
    [buttons |-> active.buttons \cup {t \in Tabs : t = tabName},
     contents |-> active.contents \cup {c \in TabContents : ContentName(c) = tabName}]

\* switchTab(tabName): classList.toggle('active', ...) over every tab
\* button and every tab content
switchTab(active, tabName) ==
    [buttons |-> {t \in Tabs : t = tabName},
     contents |-> {c \in TabContents : ContentName(c) = tabName}]

(***************************************************************************)
(* Initial state: the page after DOMContentLoaded with an empty            *)
(* localStorage (loadSettings has put the default radius in both inputs)   *)
(***************************************************************************)
\* op: the operation; arg: the id list of an add or a delete, the payload of
\* a merge; again: the merge before it had the same payload
Op(name, arg) == [op |-> name, arg |-> arg, again |-> FALSE]

NoReport == [outcome |-> "none", reported |-> 0, pushed |-> 0]

InitPage(budget) ==
    /\ history = <<>>
    /\ settings = NoSettings
    /\ selectedLat = Null
    /\ selectedLng = Null
    /\ selectedType = "attractor"
    /\ exported = <<>>
    /\ gpxFile = <<>>
    /\ units = "metric"
    /\ unitLabel = LabelAfter(MarkupLabel, "metric")
    /\ radiusInput = Tenths(DefaultRadiusMeters)
    /\ defaultRadius = Tenths(DefaultRadiusMeters)
    /\ modeSelect = "standard"
    /\ currentResult = NoResult
    /\ resultShown = FALSE
    /\ activeTab = MarkupActive
    /\ loading = FALSE
    /\ pendingGen = <<>>
    /\ pendingSync = <<>>
    /\ historyList = <<>>
    /\ sent = NoRequest
    /\ lastAlert = "none"
    /\ importReport = NoReport
    /\ lastOp = Op("none", <<>>)
    /\ opsLeft = budget

NoConversion == [stage |-> "none"]

InitWith(budget) ==
    /\ conversion = NoConversion
    /\ InitPage(budget)

Init == InitWith(MaxOps)

(***************************************************************************)
(* updateLocationDisplay via setMapCenter                                  *)
(***************************************************************************)
setMapCenter(lat, lng) ==
    /\ selectedLat' = lat
    /\ selectedLng' = lng

\* initUserLocation(): getCurrentLocation() resolved (here to its fallback)
InitUserLocation ==
    /\ selectedLat = Null
    /\ setMapCenter(40, 0 - 74)
    /\ UNCHANGED <<conversion, gpxFile, exported, selectedType, pendingSync, historyList, storeVars, settings, units, unitLabel, radiusInput, defaultRadius,
                   modeSelect, viewVars, loading, pendingGen, sent, lastAlert, opsLeft>>

(***************************************************************************)
(* handleGenerate(): up to the awaited fetch, and from its completion      *)
(***************************************************************************)
GenerateParams ==
    [lat |-> selectedLat, lng |-> selectedLng,
     radius |-> getRadiusInMeters, mode |-> modeSelect]

\* a button that takes clicks whatever its disabled attribute says
AlwaysEnabled == TRUE

\* setLoading: generateBtn.disabled = loading; a disabled button gets no click
ButtonEnabled == ~loading

GenerateClick ==
    /\ ButtonEnabled
    /\ IF Falsy(selectedLat) \/ Falsy(selectedLng)
       THEN /\ lastAlert' = "select-location"
            /\ UNCHANGED <<loading, resultShown, pendingGen, sent>>
       ELSE /\ loading' = TRUE
            /\ resultShown' = FALSE
            /\ pendingGen' = Append(pendingGen, GenerateParams)
            /\ sent' = [api |-> "generate", radius |-> GenerateParams.radius]
            /\ UNCHANGED lastAlert
    /\ UNCHANGED <<conversion, gpxFile, exported, selectedType, pendingSync, historyList, storeVars, settings, uiVars, currentResult, activeTab, opsLeft>>

\* the server's response to the request in flight: {id, request, winners,
\* circles, metadata: {timestamp}}
GenerationResult(id) ==
    [id |-> id, timestamp |-> TimestampOf(id), request |-> pendingGen[1],
     winners |-> WinnersOf(id), circles |-> <<"center">>]

GenerateSucceeds(id) ==
    /\ opsLeft > 0
    /\ pendingGen # <<>>
    /\ currentResult' = GenerationResult(id)
    /\ resultShown' = TRUE
    /\ history' = IF Parses(history)
                   THEN saveToHistory(history, GenerationResult(id))
                   ELSE history
    /\ lastOp' = Op("add", <<id>>)
    /\ lastAlert' = IF ~Parses(history) THEN "error"
                     ELSE IF DisplayThrows(history') THEN "error"
                     ELSE lastAlert
    /\ loading' = FALSE
    /\ pendingGen' = <<>>
    /\ opsLeft' = opsLeft - 1
    /\ historyList' = updateHistoryDisplay(historyList, history')
    /\ UNCHANGED <<conversion, gpxFile, exported, selectedType, pendingSync, importReport, settings, uiVars, activeTab, sent>>

\* the fetch rejects, or the response is not ok: the catch block alerts and
\* the finally block ends the loading state
GenerateFails ==
    /\ opsLeft > 0
    /\ pendingGen # <<>>
    /\ lastAlert' = "error"
    /\ loading' = FALSE
    /\ pendingGen' = <<>>
    /\ lastOp' = Op("addFailed", <<>>)
    /\ opsLeft' = opsLeft - 1
    /\ UNCHANGED <<conversion, gpxFile, exported, selectedType, pendingSync, historyList, history, importReport, settings, uiVars, viewVars, sent>>

(***************************************************************************)
(* Inputs of the merge and the import                                      *)
(***************************************************************************)
Valid(id) == [shape |-> "valid", id |-> id]

\* lists of at most n well-formed entries over the small ids, ids ascending
\* (an id may repeat)
ValidLists(n) ==
    UNION {{[k \in 1..len |-> Valid(f[k])] :
               f \in {g \in [1..len -> SmallIds] :
                         \A k \in 1..(len - 1) : g[k] <= g[k + 1]}} :
           len \in 0..n}

\* one malformed entry e, alone or in front of one well-formed entry
WithMalformed(e) == {<<e>>} \cup {<<e, Valid(id)>> : id \in SmallIds}

\* a payload that fills the store: BulkLen well-formed records, unsorted
BulkPayload == [i \in 1..BulkLen |-> Valid(10 + i)]

MalformedPayloads ==
    WithMalformed(ServerEntry("noResponse", NoId))
        \cup WithMalformed(ServerEntry("noMetadata", 1))
        \cup WithMalformed(ServerEntry("noId", NoId))
        \cup {<<Valid(1), ServerEntry("noId", NoId)>>,
              <<Valid(2), ServerEntry("noResponse", NoId)>>}

ServerPayloads == ValidLists(MaxPayload) \cup MalformedPayloads \cup {BulkPayload}

\* nine well-formed records and one without an id
NineAndOne == SubSeq(BulkPayload, 1, 5) \o <<FileEntry("noId", NoId)>>
                  \o SubSeq(BulkPayload, 6, 9)

ImportFiles ==
    ValidLists(MaxPayload)
        \cup WithMalformed(FileEntry("noId", NoId))
        \cup WithMalformed(FileEntry("null", NoId))
        \cup WithMalformed(FileEntry("noRequest", 1))
        \cup {<<Valid(1), FileEntry("noRequest", 1)>>}
        \cup {BulkPayload, NineAndOne}

\* the payloads of the merge-only exploration
MergePayloads ==
    ValidLists(MaxPayload)
        \cup {BulkPayload, <<ServerEntry("noResponse", NoId), Valid(1)>>,
              <<ServerEntry("noId", NoId)>>}

(***************************************************************************)
(* Store operations                                                        *)
(***************************************************************************)
SyncHistoryFromServer(entries) ==
    /\ opsLeft > 0
    /\ history' = syncHistoryFromServer(history, entries)
    /\ lastOp' = [op |-> "sync", arg |-> entries,
                  again |-> lastOp.op = "sync" /\ lastOp.arg = entries]
    /\ opsLeft' = opsLeft - 1
    /\ historyList' = IF SyncThrows(history, entries) THEN historyList
                      ELSE updateHistoryDisplay(historyList, history')
    /\ UNCHANGED <<conversion, gpxFile, exported, selectedType, pendingSync, importReport, settings, uiVars, viewVars, loading,
                   pendingGen, sent, lastAlert>>

\* syncHistoryFromServer() whose fetch ends in a failure; entries is what the
\* server was sending
SyncFetchFails(outcome, entries) ==
    /\ opsLeft > 0
    /\ history' = SyncAfterFetch(history, outcome, entries)
    /\ lastOp' = Op("syncFailed", <<>>)
    /\ opsLeft' = opsLeft - 1
    /\ UNCHANGED <<conversion, gpxFile, exported, selectedType, pendingSync, historyList, importReport, settings, uiVars, viewVars, loading,
                   pendingGen, sent, lastAlert>>

ImportOutcome(h, imported) ==
    IF ~Parses(h)
    THEN [history |-> h, report |-> [outcome |-> "failed", reported |-> 0, pushed |-> 0]]
    ELSE IF ImportThrows(imported)
    THEN [history |-> h, report |-> [outcome |-> "failed", reported |-> 0, pushed |-> 0]]
    ELSE LET pushed == Len(ImportPushed(imported, IdsOf(h)))
             merged == ImportMerged(h, imported)
         IN [history |-> merged,
             report |-> IF DisplayThrows(merged)
                        THEN [outcome |-> "failed", reported |-> 0, pushed |-> pushed]
                        ELSE [outcome |-> "imported", reported |-> Len(imported),
                              pushed |-> pushed]]

ImportHistory(imported) ==
    /\ opsLeft > 0
    /\ history' = ImportOutcome(history, imported).history
    /\ importReport' = ImportOutcome(history, imported).report
    /\ lastOp' = Op("import", <<>>)
    /\ lastAlert' = importReport'.outcome
    /\ opsLeft' = opsLeft - 1
    /\ historyList' = IF ~Parses(history) THEN historyList
                      ELSE IF ImportThrows(imported) THEN historyList
                      ELSE updateHistoryDisplay(historyList, history')
    /\ UNCHANGED <<conversion, gpxFile, exported, selectedType, pendingSync, settings, uiVars, viewVars, loading, pendingGen, sent>>

\* files whose text does not give an array: one exported record on its own
\* (an object), and text JSON.parse rejects
NonArrayFiles == {[shape |-> "object", id |-> 1], [shape |-> "unparseable", id |-> NoId]}

\* an import that takes a lone record object as a list of one
ImportWrapped(h, parsed) ==
    IF parsed.shape = "object"
    THEN ImportOutcome(h, <<Valid(parsed.id)>>)
    ELSE [history |-> h, report |-> [outcome |-> "failed", reported |-> 0, pushed |-> 0]]

\* JSON.parse(text) throws, or !Array.isArray(imported) throws 'Invalid
\* format: expected array': the catch block alerts before the store is read
ImportRejected(h, parsed) ==
    [history |-> h, report |-> [outcome |-> "failed", reported |-> 0, pushed |-> 0]]

ImportNotArray(parsed) ==
    /\ opsLeft > 0
    /\ history' = ImportRejected(history, parsed).history
    /\ importReport' = ImportRejected(history, parsed).report
    /\ lastOp' = Op("importRejected", <<>>)
    /\ lastAlert' = importReport'.outcome
    /\ opsLeft' = opsLeft - 1
    /\ UNCHANGED <<conversion, gpxFile, exported, selectedType, pendingSync, historyList, settings, uiVars, viewVars, loading, pendingGen, sent>>

DeleteHistoryEntry(id) ==
    /\ opsLeft > 0
    /\ history' = IF Parses(history) THEN FilterOut(history, id) ELSE history
    /\ lastOp' = Op("delete", <<id>>)
    /\ opsLeft' = opsLeft - 1
    /\ historyList' = updateHistoryDisplay(historyList, history')
    /\ UNCHANGED <<conversion, gpxFile, exported, selectedType, pendingSync, importReport, settings, uiVars, viewVars, loading,
                   pendingGen, sent, lastAlert>>

ClearHistory(confirmed) ==
    /\ opsLeft > 0
    /\ history' = clearHistory(history, confirmed)
    /\ lastOp' = Op("clear", <<confirmed>>)
    /\ opsLeft' = opsLeft - 1
    /\ historyList' = IF confirmed THEN updateHistoryDisplay(historyList, history') ELSE historyList
    /\ UNCHANGED <<conversion, gpxFile, exported, selectedType, pendingSync, importReport, settings, uiVars, viewVars, loading,
                   pendingGen, sent, lastAlert>>

Next ==
    \/ InitUserLocation
    \/ GenerateClick
    \/ \E id \in SmallIds : GenerateSucceeds(id)
    \/ GenerateFails
    \/ \E entries \in ServerPayloads : SyncHistoryFromServer(entries)
    \/ \E outcome \in FetchFailures : SyncFetchFails(outcome, <<Valid(3)>>)
    \/ \E imported \in ImportFiles : ImportHistory(imported)
    \/ \E parsed \in NonArrayFiles : ImportNotArray(parsed)
    \/ \E id \in SmallIds \cup {NoId, 11} : DeleteHistoryEntry(id)
    \/ \E confirmed \in BOOLEAN : ClearHistory(confirmed)

Spec == Init /\ [][Next]_vars

\* generations and server merges only, one operation deeper
InitMerge == InitWith(MaxMergeOps)

NextMerge ==
    \/ InitUserLocation
    \/ GenerateClick
    \/ \E id \in SmallIds : GenerateSucceeds(id)
    \/ GenerateFails
    \/ \E entries \in MergePayloads : SyncHistoryFromServer(entries)

SpecMerge == InitMerge /\ [][NextMerge]_vars

(***************************************************************************)
(* syncHistoryFromServer() with its awaits: the fetch is issued, other     *)
(* handlers run while it is outstanding, and the code from the read of     *)
(* localStorage to setItem runs in one piece when the payload has arrived. *)
(***************************************************************************)
\* a run that combines with the store as it was when the fetch was issued
MergeBaseAtStart(atStart, current) == atStart

\* the store the run combines with: localStorage is read after both awaits
MergeBase(atStart, current) == current

WithoutIndex(s, k) == SubSeq(s, 1, k - 1) \o SubSeq(s, k + 1, Len(s))

\* fetch('/api/history') is issued
SyncStart ==
    /\ opsLeft > 0
    /\ Len(pendingSync) < MaxInFlight
    /\ pendingSync' = Append(pendingSync, [atStart |-> history])
    /\ UNCHANGED <<conversion, gpxFile, exported, selectedType, historyList, storeVars, settings, uiVars, viewVars, loading,
                   pendingGen, sent, lastAlert, opsLeft>>

\* the payload of the k-th outstanding fetch has arrived
SyncArrives(k, entries) ==
    /\ opsLeft > 0
    /\ k \in 1..Len(pendingSync)
    /\ history' = syncHistoryFromServer(MergeBase(pendingSync[k].atStart, history),
                                        entries)
    /\ pendingSync' = WithoutIndex(pendingSync, k)
    /\ lastOp' = Op("syncArrived", <<k, entries>>)
    /\ opsLeft' = opsLeft - 1
    /\ historyList' = IF SyncThrows(history, entries) THEN historyList
                      ELSE updateHistoryDisplay(historyList, history')
    /\ UNCHANGED <<conversion, gpxFile, exported, selectedType, importReport, settings, uiVars, viewVars, loading,
                   pendingGen, sent, lastAlert>>

OverlapPayloads == {<<Valid(2)>>, <<Valid(1), Valid(3)>>, BulkPayload}

InitOverlap == InitWith(MaxOverlapOps)

NextOverlap ==
    \/ InitUserLocation
    \/ GenerateClick
    \/ \E id \in {1, 3} : GenerateSucceeds(id)
    \/ SyncStart
    \/ \E k \in 1..MaxInFlight : \E entries \in OverlapPayloads : SyncArrives(k, entries)

SpecOverlap == InitOverlap /\ [][NextOverlap]_vars

(***************************************************************************)
(* Location, radius, units, settings, share link, replay, tabs             *)
(***************************************************************************)
InRange(v) == v <= MaxRadiusInput

\* parseAndSetLocation(text), text holding two numbers
ParseAndSetLocation(lat, lng) ==
    /\ IF lat >= 0 - 90 /\ lat <= 90 /\ lng >= 0 - 180 /\ lng <= 180
       THEN setMapCenter(lat, lng) /\ UNCHANGED lastAlert
       ELSE lastAlert' = "parse-coordinates" /\ UNCHANGED <<selectedLat, selectedLng>>
    /\ UNCHANGED <<conversion, gpxFile, exported, selectedType, pendingSync, historyList, storeVars, settings, units, unitLabel, radiusInput, defaultRadius,
                   modeSelect, viewVars, loading, pendingGen, sent, opsLeft>>

\* the user edits #radius-input (0: empty or not a number)
ChangeRadius(v) ==
    /\ radiusInput' = v
    /\ UNCHANGED <<conversion, gpxFile, exported, selectedType, pendingSync, historyList, storeVars, settings, selectedLat, selectedLng, units, unitLabel,
                   defaultRadius, modeSelect, viewVars, loading, pendingGen,
                   sent, lastAlert, opsLeft>>

\* the settings object saveSettings() writes
SavedSettings(u, default) ==
    [units |-> u, defaultRadiusMeters |-> RadiusInMeters(u, default)]

\* the user edits #default-radius: its change handler is saveSettings
ChangeDefaultRadius(v) ==
    /\ defaultRadius' = v
    /\ settings' = SavedSettings(units, v)
    /\ UNCHANGED <<conversion, gpxFile, exported, selectedType, pendingSync, historyList, storeVars, selectedLat, selectedLng, units, unitLabel, radiusInput,
                   modeSelect, viewVars, loading, pendingGen, sent, lastAlert, opsLeft>>

\* a comparison that never finds the selected unit to be the current one
NeverSameUnit(newUnit, oldUnit) == FALSE

\* newUnit === oldUnit
SameUnit(newUnit, oldUnit) == newUnit = oldUnit

\* handleUnitChange(): returns at once when the unit is the current one
HandleUnitChange(newUnit) ==
    /\ IF SameUnit(newUnit, units)
       THEN UNCHANGED <<units, unitLabel, radiusInput, defaultRadius, settings>>
       ELSE /\ units' = newUnit
            /\ unitLabel' = LabelAfter(unitLabel, newUnit)
            /\ radiusInput' = ConvertValue(units, newUnit, radiusInput)
            /\ InRange(radiusInput')
            /\ defaultRadius' = ConvertValue(units, newUnit, defaultRadius)
            /\ settings' = SavedSettings(newUnit, defaultRadius')
    /\ UNCHANGED <<conversion, gpxFile, exported, selectedType, pendingSync, historyList, storeVars, selectedLat, selectedLng, modeSelect, viewVars,
                   loading, pendingGen, sent, lastAlert, opsLeft>>

\* createShareLink(): up to the fetch
CreateShareLink ==
    /\ IF Falsy(selectedLat) \/ Falsy(selectedLng)
       THEN lastAlert' = "select-location" /\ UNCHANGED sent
       ELSE /\ sent' = [api |-> "share", radius |-> ParseFloatOrDefault(radiusInput)]
            /\ UNCHANGED lastAlert
    /\ UNCHANGED <<conversion, gpxFile, exported, selectedType, pendingSync, historyList, storeVars, settings, uiVars, viewVars, loading, pendingGen, opsLeft>>

\* a response that carries the layout circles of a fresh generation
ReplayResponseWithCircles(entry) ==
    [id |-> entry.id, timestamp |-> entry.timestamp, request |-> entry.request,
     winners |-> entry.winners, circles |-> <<"center">>]

\* the response object loadHistoryEntry builds from a stored record
ReplayResponse(entry) ==
    [id |-> entry.id, timestamp |-> entry.timestamp, request |-> entry.request,
     winners |-> entry.winners, circles |-> <<>>]

\* a lookup that falls back to the last record
EntryAtOrLast(h, index) ==
    IF h = <<>> THEN <<>>
    ELSE IF index \in 1..Len(h) THEN <<h[index]>> ELSE <<h[Len(h)]>>

\* history[index]: <<entry>>, or <<>> when there is none (!entry)
EntryAt(h, index) == IF index \in 1..Len(h) THEN <<h[index]>> ELSE <<>>

\* loadHistoryEntry(index): returns at once when there is no entry; an entry
\* without a request makes req.lat throw before anything is assigned
LoadHistoryEntry(index) ==
    /\ opsLeft > 0
    /\ Parses(history)
    /\ IF EntryAt(history, index) = <<>>
       THEN /\ lastOp' = Op("replayMiss", <<index>>)
            /\ UNCHANGED <<selectedLat, selectedLng, radiusInput, modeSelect, viewVars>>
       ELSE LET entry == EntryAt(history, index)[1]
            IN /\ entry.request # NoRequest
               /\ InRange(entry.request.radius)
               /\ setMapCenter(entry.request.lat, entry.request.lng)
               /\ radiusInput' = entry.request.radius
               /\ modeSelect' = entry.request.mode
               /\ currentResult' = ReplayResponse(entry)
               /\ resultShown' = TRUE
               /\ activeTab' = switchTab(activeTab, "generate")
               /\ lastOp' = Op("replay", <<index>>)
    /\ opsLeft' = opsLeft - 1
    /\ UNCHANGED <<conversion, gpxFile, exported, selectedType, pendingSync, historyList, history, importReport, settings, units, unitLabel, defaultRadius,
                   loading, pendingGen, sent, lastAlert>>

\* switchTab(tabName)
SwitchTab(tabName) ==
    /\ activeTab' = switchTab(activeTab, tabName)
    /\ historyList' = IF tabName = "history"
                      THEN updateHistoryDisplay(historyList, history)
                      ELSE historyList
    /\ UNCHANGED <<conversion, gpxFile, exported, selectedType, pendingSync, storeVars, settings, uiVars, currentResult, resultShown,
                   loading, pendingGen, sent, lastAlert, opsLeft>>

\* values the user types into a radius control
TypedRadii == {0, Tenths(2)}

UnitPayloads == {<<Valid(1), Valid(3)>>}

InitUnits == InitWith(MaxUnitOps)

NextUnits ==
    \/ InitUserLocation
    \/ \E v \in TypedRadii : ChangeRadius(v)
    \/ ChangeDefaultRadius(Tenths(2))
    \/ \E newUnit \in {"metric", "imperial"} : HandleUnitChange(newUnit)
    \/ CreateShareLink
    \/ GenerateClick
    \/ \E id \in {2} : GenerateSucceeds(id)
    \/ \E entries \in UnitPayloads : SyncHistoryFromServer(entries)
    \/ \E index \in {1, 3} : LoadHistoryEntry(index)
    \/ \E tabName \in {"generate", "history"} : SwitchTab(tabName)

SpecUnits == InitUnits /\ [][NextUnits]_vars

(***************************************************************************)
(* The generate control alone: clicks, completions of the request, and the *)
(* controls a user can touch while a request is in flight.  A click is     *)
(* explored only while a completion may still be explored after it.        *)
(***************************************************************************)
StartGeneration ==
    /\ opsLeft > 0
    /\ GenerateClick

\* the awaited fetch settles: the response is shown and saved, or the catch
\* block runs
GenerationCompletes ==
    \/ \E id \in {1, 2} : GenerateSucceeds(id)
    \/ GenerateFails

InitGenerate == InitWith(MaxGenerateOps)

NextGenerate ==
    \/ InitUserLocation
    \/ \E lat \in {0, 40, 91} : ParseAndSetLocation(lat, 0 - 74)
    \/ StartGeneration
    \/ \E id \in {1, 2} : GenerateSucceeds(id)
    \/ GenerateFails
    \/ \E v \in TypedRadii : ChangeRadius(v)
    \/ \E tabName \in Tabs : SwitchTab(tabName)

\* a started fetch settles (its promise resolves or rejects) and the code
\* after the await then runs
SpecGenerate ==
    InitGenerate /\ [][NextGenerate]_vars /\ WF_vars(GenerationCompletes)

(***************************************************************************)
(* Page load over what localStorage holds, and writes to localStorage that *)
(* do not come from this page (another version of the client, the user)    *)
(***************************************************************************)
\* loadSettings(): the unit system and the value both radius controls get;
\* JSON.parse throws on a blob it rejects, before anything is assigned, and
\* the controls keep the values of the markup
loadSettings(st) ==
    IF st = CorruptSettings
    THEN [units |-> "metric", display |-> Tenths(DefaultRadiusMeters), threw |-> TRUE]
    ELSE LET u == IF st = NoSettings THEN "metric" ELSE st.units
             radiusMeters == IF st = NoSettings \/ st.defaultRadiusMeters = 0
                             THEN Tenths(DefaultRadiusMeters)
                             ELSE st.defaultRadiusMeters
         IN [units |-> u, display |-> formatRadius(u, radiusMeters), threw |-> FALSE]

\* DOMContentLoaded: a fresh page (state and controls as in the script and
\* the markup), then loadSettings()
Reload ==
    /\ opsLeft > 0
    /\ selectedLat' = Null
    /\ selectedLng' = Null
    /\ units' = loadSettings(settings).units
    /\ unitLabel' = IF loadSettings(settings).threw THEN MarkupLabel
                    ELSE LabelAfter(MarkupLabel, loadSettings(settings).units)
    /\ radiusInput' = loadSettings(settings).display
    /\ defaultRadius' = loadSettings(settings).display
    /\ modeSelect' = "standard"
    /\ currentResult' = NoResult
    /\ resultShown' = FALSE
    /\ activeTab' = MarkupActive
    /\ loading' = FALSE
    /\ pendingGen' = <<>>
    /\ lastOp' = Op("reload", <<IF loadSettings(settings).threw THEN "threw" ELSE "done">>)
    /\ opsLeft' = opsLeft - 1
    /\ pendingSync' = <<>>
    /\ historyList' = updateHistoryDisplay(<<>>, history)
    /\ selectedType' = "attractor"
    /\ UNCHANGED <<conversion, gpxFile, exported, history, importReport, settings, sent, lastAlert>>

\* localStorage.setItem(key, written) throws (quota exceeded, storage
\* disabled): the item keeps the value it had
WriteRefused(h, written) == h

\* handleGenerate from the completion of an ok fetch, with the setItem of
\* saveToHistory throwing: the result is already shown, the exception goes
\* to the catch block of handleGenerate, which alerts
GenerateSucceedsUnsaved(id) ==
    /\ opsLeft > 0
    /\ pendingGen # <<>>
    /\ currentResult' = GenerationResult(id)
    /\ resultShown' = TRUE
    /\ history' = IF Parses(history)
                   THEN WriteRefused(history, saveToHistory(history, GenerationResult(id)))
                   ELSE history
    /\ lastOp' = Op("addUnsaved", <<id>>)
    /\ lastAlert' = "error"
    /\ loading' = FALSE
    /\ pendingGen' = <<>>
    /\ opsLeft' = opsLeft - 1
    /\ UNCHANGED <<conversion, gpxFile, exported, selectedType, pendingSync, historyList, importReport, settings, uiVars, activeTab, sent>>

\* the history blob is replaced by one this client cannot read
HistoryOverwritten(kind) ==
    /\ history' = Corrupted(kind)
    /\ UNCHANGED <<conversion, gpxFile, exported, selectedType, pendingSync, historyList, importReport, lastOp, settings, uiVars, viewVars, loading,
                   pendingGen, sent, lastAlert, opsLeft>>

\* the settings blob is replaced
SettingsOverwritten(st) ==
    /\ settings' = st
    /\ UNCHANGED <<conversion, gpxFile, exported, selectedType, pendingSync, historyList, storeVars, uiVars, viewVars, loading, pendingGen, sent,
                   lastAlert, opsLeft>>

\* settings blobs written from outside: unreadable, or naming another unit
ForeignSettings ==
    {CorruptSettings,
     [units |-> "nautical", defaultRadiusMeters |-> Tenths(DefaultRadiusMeters)]}

\* resetSettings(): after confirm() returned true the settings item is
\* removed and both radius controls get the number 3000; state.units and the
\* unit labels are left as they are
ResetSettings(confirmed) ==
    /\ opsLeft > 0
    /\ IF confirmed
       THEN /\ settings' = NoSettings
            /\ defaultRadius' = Tenths(DefaultRadiusMeters)
            /\ radiusInput' = Tenths(DefaultRadiusMeters)
       ELSE UNCHANGED <<settings, defaultRadius, radiusInput>>
    /\ lastOp' = Op("resetSettings", <<confirmed>>)
    /\ opsLeft' = opsLeft - 1
    /\ UNCHANGED <<conversion, gpxFile, exported, selectedType, pendingSync, historyList, history, importReport,
                   selectedLat, selectedLng, units, unitLabel, modeSelect, viewVars,
                   loading, pendingGen, sent, lastAlert>>

InitStorage == InitWith(MaxStorageOps)

NextStorage ==
    \/ InitUserLocation
    \/ GenerateClick
    \/ GenerateSucceeds(1)
    \/ GenerateSucceedsUnsaved(2)
    \/ GenerateFails
    \/ \E newUnit \in {"metric", "imperial"} : HandleUnitChange(newUnit)
    \/ \E kind \in {"unparseable", "notArray"} : HistoryOverwritten(kind)
    \/ \E st \in ForeignSettings : SettingsOverwritten(st)
    \/ Reload
    \/ \E confirmed \in BOOLEAN : ResetSettings(confirmed)
    \/ DeleteHistoryEntry(1)
    \/ LoadHistoryEntry(1)

SpecStorage == InitStorage /\ [][NextStorage]_vars

(***************************************************************************)
(* UNIT_CONVERSIONS, taken on its own: a canonical value shown in a unit   *)
(* (radiusMeters * conversion.fromMeters, toFixed(decimals) or Math.round) *)
(* and read back (value * conversion.toMeters).  Here a canonical value is *)
(* in whole metres, a displayed value is counted in units of its last      *)
(* displayed decimal, and a value read back is in 1/10000 m.               *)
(***************************************************************************)
\* fromMeters: <<n, d>> with displayed count = metres * n / d (the factor
\* times 10^decimals, over a multiple of 1000); toMeters: 1/10000 m per
\* unit of the last displayed decimal
UNIT_CONVERSIONS ==
    [meters |-> [fromMeters |-> <<1000, 1000>>, toMeters |-> 10000, decimals |-> 0],
     miles |-> [fromMeters |-> <<621371, 100000000>>, toMeters |-> 1609340, decimals |-> 1],
     feet |-> [fromMeters |-> <<328084, 100000>>, toMeters |-> 3048, decimals |-> 0],
     kilometers |-> [fromMeters |-> <<10, 1000>>, toMeters |-> 1000000, decimals |-> 1]]

UnitTypes == DOMAIN UNIT_CONVERSIONS

\* the displayed value cut off at its last decimal instead of rounded
DisplayTruncated(unitType, meters) ==
    LET c == UNIT_CONVERSIONS[unitType].fromMeters
    IN ((meters \div 1000) * c[1] + ((meters % 1000) * c[1]) \div 1000)
           \div (c[2] \div 1000)

\* (meters * fromMeters).toFixed(decimals) / Math.round(meters * fromMeters);
\* the product is split so that it stays within 32 bits
DisplayCount(unitType, meters) ==
    LET c == UNIT_CONVERSIONS[unitType].fromMeters
    IN ((meters \div 1000) * c[1] + ((meters % 1000) * c[1] + c[2] \div 2) \div 1000)
           \div (c[2] \div 1000)

\* count * toMeters - meters, as high * 1000 + low in 1/10000 m
ReadBackError(unitType, count, meters) ==
    LET t == UNIT_CONVERSIONS[unitType].toMeters
        lowProduct == (count % 1000) * t
    IN [high |-> (count \div 1000) * t + lowProduct \div 1000 - meters * 10,
        low |-> lowProduct % 1000]

CanonicalValues == {0, 1, 3000, 1609340} \cup 2..MaxSmallMeters

InitConvert ==
    /\ InitPage(0)
    /\ conversion \in {[stage |-> "meters", unit |-> u, meters |-> m] :
                          u \in UnitTypes, m \in CanonicalValues}

\* canonical -> displayed
FromCanonical ==
    /\ conversion.stage = "meters"
    /\ conversion' = [stage |-> "display", unit |-> conversion.unit,
                      meters |-> conversion.meters,
                      display |-> DisplayCount(conversion.unit, conversion.meters)]
    /\ UNCHANGED <<gpxFile, exported, selectedType, pendingSync, historyList, storeVars, settings, uiVars, viewVars,
                   loading, pendingGen, sent, lastAlert, opsLeft>>

\* displayed -> canonical
ToCanonical ==
    /\ conversion.stage = "display"
    /\ conversion' = [stage |-> "back", unit |-> conversion.unit,
                      meters |-> conversion.meters, display |-> conversion.display,
                      error |-> ReadBackError(conversion.unit, conversion.display,
                                              conversion.meters)]
    /\ UNCHANGED <<gpxFile, exported, selectedType, pendingSync, historyList, storeVars, settings, uiVars, viewVars,
                   loading, pendingGen, sent, lastAlert, opsLeft>>

NextConvert ==
    \/ FromCanonical
    \/ ToCanonical

SpecConvert == InitConvert /\ [][NextConvert]_vars

(***************************************************************************)
(* Properties of the history store                                         *)
(***************************************************************************)
IdSeq(h) == [i \in 1..Len(h) |-> h[i].id]

CountAt(h, t) == Cardinality({i \in 1..Len(h) : h[i].timestamp = t})

CountOf(h, id) == Cardinality({i \in 1..Len(h) : h[i].id = id})

Oldest(T) == CHOOSE t \in T : \A u \in T : t <= u

\* the step completes the store operation called name
Completes(name) == opsLeft' = opsLeft - 1 /\ lastOp'.op = name

\* C1: no two records of the persisted history share an id.
NoTwoRecordsShareAnId == Cardinality(IdsOf(history)) = Len(history)

\* C2: the stored history, read in order, has non-increasing timestamps after
\* every mutating operation.
NewestFirst ==
    \A i \in 1..(Len(history) - 1) :
        history[i].timestamp >= history[i + 1].timestamp

\* C3: the number of stored records never exceeds 100.
NeverOverCapacity == Len(history) <= HistoryCap

\* C3 witness: an add has completed on a store that was full.
AddOnFullStoreDone ==
    /\ lastOp.op = "add"
    /\ Len(history) = HistoryCap
    /\ \E i \in 2..Len(history) : history[i].id \in BulkIds

\* C4: the record an add evicts from a full store is one with the oldest
\* timestamp among the stored records and the new one, so that the retained
\* records are the 100 most recent.
AddEvictsOldest ==
    [][(Completes("add") /\ Len(history) = HistoryCap) =>
          LET new == TimestampOf(lastOp'.arg[1])
              all == Timestamps(history) \cup {new}
          IN \A t \in all :
                 CountAt(history', t) =
                     CountAt(history, t) + (IF t = new THEN 1 ELSE 0)
                         - (IF t = Oldest(all) THEN 1 ELSE 0)]_vars

\* C5: a merge run again at once with the same payload leaves the persisted
\* store, contents and order, as the first run left it.
MergeIdempotent ==
    [][(Completes("sync") /\ lastOp.op = "sync" /\ lastOp'.arg = lastOp.arg)
          => history' = history]_vars

\* C5 witness: a merge has been repeated with the payload of the one before,
\* whose run had cut a record of that payload at the cap.
RepeatedMergeAfterTruncation ==
    /\ lastOp.op = "sync"
    /\ lastOp.again
    /\ Len(history) = HistoryCap
    /\ \E k \in 1..Len(lastOp.arg) : EntryId(lastOp.arg[k]) \notin IdsOf(history)

WellFormed(entries) == \A k \in 1..Len(entries) : entries[k].shape = "valid"

PayloadIds(entries) == {EntryId(entries[k]) : k \in 1..Len(entries)}

\* C6: add(A@10), add(B@20) from the empty store gives [B, A], and merging
\* [A, C@5] then gives [B, A, C]; in general a merge of well-formed records
\* that stays under the cap adds the remote ids that were not local, leaves
\* every local id as often as it was, and leaves the store newest first.
MergeAddsNewByTimestamp ==
    [][/\ (Completes("add") /\ IdSeq(history) = <<1>> /\ lastOp'.arg = <<2>>)
             => IdSeq(history') = <<2, 1>>
       /\ (Completes("sync") /\ IdSeq(history) = <<2, 1>>
               /\ lastOp'.arg = <<Valid(1), Valid(3)>>)
             => IdSeq(history') = <<2, 1, 3>>
       /\ (Completes("sync") /\ WellFormed(lastOp'.arg)
               /\ Len(history) + Len(lastOp'.arg) <= HistoryCap)
             => /\ IdsOf(history') = IdsOf(history) \cup PayloadIds(lastOp'.arg)
                /\ \A id \in IdsOf(history) : CountOf(history', id) = CountOf(history, id)
                /\ \A i \in 1..(Len(history') - 1) :
                       history'[i].timestamp >= history'[i + 1].timestamp]_vars

\* C6 witness: the scenario has run to its end.
ScenarioMerged ==
    /\ lastOp.op = "sync"
    /\ lastOp.arg = <<Valid(1), Valid(3)>>
    /\ IdSeq(history) = <<2, 1, 3>>
    /\ history[1].request # RemoteRequest(2)

\* C9: a malformed entry in a server payload does not abort the merge: every
\* well-formed entry with a new id is added and only the malformed one is
\* dropped.
MalformedEntryIsolated ==
    [][(Completes("sync") /\ Len(history) + Len(lastOp'.arg) <= HistoryCap) =>
          \A k \in 1..Len(lastOp'.arg) :
              lastOp'.arg[k].shape = "valid" => lastOp'.arg[k].id \in IdsOf(history')]_vars

\* C10: the count an import reports as accepted is the number of records it
\* added to the store (nine for nine valid records and one malformed).
ImportReportsAccepted ==
    importReport.outcome = "imported" => importReport.reported = importReport.pushed

(***************************************************************************)
(* Properties of the unit layer and the replay                             *)
(***************************************************************************)
\* half a display step of the unit system, in tenths of a metre
RoundingTolerance(u) == IF u = "imperial" THEN 805 ELSE 5

Distance(a, b) == IF a >= b THEN a - b ELSE b - a

\* C7: after a record is replayed the selected location is the record's
\* request location, and the radius control, read back in metres under the
\* active unit system, gives the record's stored radius within rounding.
ReplayFidelity ==
    [][Completes("replay") =>
          LET req == history[lastOp'.arg[1]].request
          IN /\ selectedLat' = req.lat
             /\ selectedLng' = req.lng
             /\ Distance(RadiusInMeters(units', radiusInput'), req.radius)
                    <= RoundingTolerance(units')]_vars

\* C8: the radius put in a generate request, in a share request and in the
\* saved settings is the displayed radius converted from the active unit to
\* metres.
RadiusLeavesInMeters ==
    [][/\ sent' # sent => sent'.radius = RadiusInMeters(units', radiusInput')
       /\ settings' # settings =>
              settings'.defaultRadiusMeters = RadiusInMeters(units', defaultRadius')]_vars

(***************************************************************************)
(* Properties of failure handling, delete, clear and replay                *)
(***************************************************************************)
\* C11: a merge that fails before the payload is received and processed (the
\* fetch rejects, the response is not ok, the body does not parse, an entry
\* makes the loop throw) leaves the persisted history exactly as it was.  A
\* fetch that never completes takes no step at all.
FailedMergeWritesNothing ==
    [][/\ Completes("syncFailed") => history' = history
       /\ (Completes("sync") /\ SyncThrows(history, lastOp'.arg))
             => history' = history]_vars

\* C11 witness: a merge has failed on a store that holds records.
MergeFailedOnStoredRecords ==
    /\ lastOp.op = "syncFailed"
    /\ history # <<>>

\* C12: a corrupted history or settings blob degrades to an empty history or
\* default settings: an add or a delete over a corrupted history blob
\* completes and leaves a readable history, the add's record in it, and a
\* page load over a corrupted settings blob completes without throwing.
CorruptionDegrades ==
    [][/\ (Completes("add") /\ ~Parses(history))
             => (Parses(history') /\ IdSeq(history') = lastOp'.arg)
       /\ (Completes("delete") /\ ~Parses(history)) => Parses(history')
       /\ Completes("reload") => lastOp'.arg = <<"done">>]_vars

\* C13: a delete removes the record with the given id and leaves every other
\* record, in the same relative order; when no record has the id the store
\* is unchanged.
DeleteRemovesOnlyThatId ==
    [][Completes("delete") =>
          LET id == lastOp'.arg[1]
              kept == {i \in 1..Len(history) : history[i].id # id}
          IN /\ Len(history') = Cardinality(kept)
             /\ \A i \in kept :
                    history'[Cardinality({j \in kept : j <= i})] = history[i]
             /\ id \notin IdsOf(history) => history' = history]_vars

\* C13 witness: a delete has taken one record out of a full store.
DeletedFromFullStore ==
    /\ lastOp.op = "delete"
    /\ lastOp.arg = <<11>>
    /\ Len(history) = HistoryCap - 1
    /\ 11 \notin IdsOf(history)

\* C14: clearHistory empties the store when the user confirms and leaves it
\* unchanged when the user declines.
ClearEmptiesOnConfirm ==
    [][Completes("clear") =>
          IF lastOp'.arg[1] THEN history' = <<>> ELSE history' = history]_vars

\* C14 witness: a confirmed clear has emptied a store an import had filled.
ClearedAfterImport ==
    /\ lastOp.op = "clear"
    /\ lastOp.arg = <<TRUE>>
    /\ importReport.pushed > 0
    /\ history = <<>>

\* C15: replaying a stored record makes the current result a view with the
\* record's id, request, winners and timestamp and an empty circles list,
\* and changes neither the record nor the store.
ReplayBuildsViewOfRecord ==
    [][Completes("replay") =>
          LET entry == history[lastOp'.arg[1]]
          IN /\ currentResult'.id = entry.id
             /\ currentResult'.request = entry.request
             /\ currentResult'.winners = entry.winners
             /\ currentResult'.timestamp = entry.timestamp
             /\ currentResult'.circles = <<>>
             /\ history' = history]_vars

\* C15 witness: a record saved by a generation (whose fresh response had
\* circles) has been replayed.
GeneratedRecordReplayed ==
    /\ lastOp.op = "replay"
    /\ currentResult # NoResult
    /\ currentResult.id = 2
    /\ currentResult.circles = <<>>
    /\ history[lastOp.arg[1]].id = 2

\* C16: replaying an entry that is not in the store is a no-op: the selected
\* location, the radius control, the mode, the current result, the active
\* tab and the store are all left as they were.
ReplayOfMissingEntryIsNoOp ==
    [][(opsLeft' = opsLeft - 1 /\ lastOp'.op \in {"replay", "replayMiss"}
           /\ lastOp'.arg[1] \notin 1..Len(history))
          => UNCHANGED <<selectedLat, selectedLng, radiusInput, modeSelect,
                         currentResult, resultShown, activeTab, history>>]_vars

\* C16 witness: a replay found no entry while a result was shown and the
\* history tab was open.
ReplayMissedWithResultShown ==
    /\ lastOp.op = "replayMiss"
    /\ history # <<>>
    /\ activeTab.buttons = {"history"}
    /\ currentResult # NoResult

\* C17: a unit identifier outside the supported set is rejected and never
\* silently treated as a supported unit: either the active unit system is a
\* supported one, or reading the radius control in metres and formatting a
\* radius do not fall back to the metric conversion.
UnknownUnitNotTreatedAsMetric ==
    \/ units \in SupportedSystems
    \/ /\ RadiusInMeters(units, radiusInput) # RadiusInMeters("metric", radiusInput)
       /\ formatRadius(units, radiusInput) # formatRadius("metric", radiusInput)

\* C18: a unit-system change recomputes every displayed radius from the
\* canonical metres value, so the effective radius in metres of the radius
\* control and of the default-radius control is the same after the switch as
\* before it (3000 m stays 3000 m through metric -> imperial -> metric).
UnitSwitchKeepsCanonical ==
    [][units' # units =>
          /\ RadiusInMeters(units', radiusInput') = RadiusInMeters(units, radiusInput)
          /\ RadiusInMeters(units', defaultRadius') = RadiusInMeters(units, defaultRadius)]_vars

\* C19: for every unit of UNIT_CONVERSIONS and the canonical values 0, 1,
\* 3000 and 1609340 (and the small values explored with them), a value
\* shown in the unit and read back differs from the original by at most
\* half a unit of the unit's last displayed decimal.
RoundTripWithinTolerance ==
    conversion.stage = "back" =>
        LET half == UNIT_CONVERSIONS[conversion.unit].toMeters \div 2
            e == conversion.error
        IN /\ e.high >= 0 - 1000
           /\ e.high <= 1000
           /\ e.high * 1000 + e.low <= half
           /\ e.high * 1000 + e.low >= 0 - half

\* C19 witness: 3000 m has been shown in feet (9843) and read back.
FeetRoundTripDone ==
    /\ conversion.stage = "back"
    /\ conversion.unit = "feet"
    /\ conversion.meters = 3000
    /\ conversion.display = 9843

\* C20: among records with equal timestamps the most recently inserted one
\* is listed first: after an add, a merge or an import, no record that was
\* already stored stands ahead of a record the operation inserted with the
\* same timestamp.
TieGoesToLatestInserted ==
    [][((Completes("add") \/ Completes("sync") \/ Completes("import"))
            /\ Parses(history) /\ Parses(history')) =>
          \A j \in 1..Len(history') :
              history'[j].id \notin IdsOf(history) =>
                  \A i \in 1..(j - 1) :
                      history'[i].timestamp = history'[j].timestamp =>
                          history'[i].id \notin IdsOf(history)]_vars

\* the record r (all of its fields) stands nowhere in h
NotIn(h, r) == \A i \in 1..Len(h) : h[i] # r

\* C21: a merge removes a local record only through the one truncation after
\* the combine and sort: every local record is still in the store after the
\* merge with all of its fields as they were (also when the payload carries
\* another record under its id), unless the store came out full and every
\* record left in it is at least as new as the record dropped.
MergeDropsOnlyByCapacity ==
    [][(Completes("sync") /\ Parses(history)) =>
          \A i \in 1..Len(history) :
              \/ ~NotIn(history', history[i])
              \/ /\ Len(history') = HistoryCap
                 /\ \A j \in 1..Len(history') :
                        history'[j].timestamp >= history[i].timestamp]_vars

\* C21 witness: a merge of the large payload has truncated the store and the
\* record generated before it is still there, as generated.
LocalRecordSurvivedTruncation ==
    /\ lastOp.op = "sync"
    /\ lastOp.arg = BulkPayload
    /\ Len(history) = HistoryCap
    /\ \E i \in 1..Len(history) :
           /\ history[i].id \in SmallIds
           /\ history[i].request # RemoteRequest(history[i].id)

\* C22: a record is created only when a generation request completes
\* successfully (or at a merge or an import): a successful generation adds
\* exactly one record, the one of its result, in front (the store growing
\* by one until it holds 100), and a generation that fails leaves the store
\* and the current result as they were.
RecordOnlyOnSuccessfulGeneration ==
    [][/\ (Completes("add") /\ Parses(history)) =>
             /\ Len(history') = IF Len(history) < HistoryCap
                                THEN Len(history) + 1 ELSE HistoryCap
             /\ history'[1] = HistoryEntry(currentResult')
             /\ SubSeq(history', 2, Len(history')) = SubSeq(history, 1, Len(history') - 1)
       /\ Completes("addFailed") =>
             /\ history' = history
             /\ currentResult' = currentResult
       /\ (Parses(history) /\ Parses(history') /\ Len(history') > Len(history)) =>
             (Completes("add") \/ Completes("sync") \/ Completes("import"))]_vars

\* C22 witness: a generation has failed after an earlier one had succeeded
\* and left a record and a current result.
GenerationFailedAfterSuccess ==
    /\ lastOp.op = "addFailed"
    /\ Len(history) = 1
    /\ currentResult # NoResult

\* C23: while no location is selected no generation request is sent and the
\* loading state is not entered, and the step that shows the 'select a
\* location' alert leaves the history and the current result unchanged.
NoLocationNoRequest ==
    [][(selectedLat = Null \/ selectedLng = Null) =>
          /\ sent' = sent
          /\ ~loading'
          /\ pendingGen' = <<>>
          /\ (lastAlert' = "select-location" /\ lastAlert # "select-location") =>
                 /\ history' = history
                 /\ currentResult' = currentResult
                 /\ resultShown' = resultShown]_vars

\* C23 witness: generate was clicked with no location selected, after the
\* store had received records.
AlertedWithoutLocation ==
    /\ selectedLat = Null
    /\ lastAlert = "select-location"
    /\ history # <<>>
    /\ ~loading
    /\ sent = NoRequest

\* C24: the generate control is in the loading state exactly while a request
\* is in flight, at most one request is in flight at any time, and every
\* started generation eventually returns the control to the enabled state,
\* whether the request succeeds or fails.
LoadingUntilRequestCompletes ==
    /\ [](loading <=> pendingGen # <<>>)
    /\ [](Len(pendingGen) <= 1)
    /\ (loading ~> ~loading)

\* C24 witness: a second request is in flight, the first one having failed.
LoadingAgainAfterFailure ==
    /\ loading
    /\ Len(pendingGen) = 1
    /\ lastOp.op = "addFailed"

\* C25: a bulk import whose payload is not an array is reported to the user
\* as a failed import and leaves the persisted history exactly unchanged.
NonArrayImportFailsCleanly ==
    [][Completes("importRejected") =>
          /\ history' = history
          /\ importReport'.outcome = "failed"
          /\ lastAlert' = "failed"]_vars

\* C25 witness: a file that is not an array was refused over a store that
\* holds records.
NonArrayRefusedOverRecords ==
    /\ lastOp.op = "importRejected"
    /\ history # <<>>
    /\ lastAlert = "failed"

\* C26: when the write to the persistent store fails during an add, the
\* failure is reported and the newly generated record is still part of the
\* history that later list, replay and add operations of the session read.
UnsavedRecordStaysInSession ==
    [][(Completes("addUnsaved") /\ Parses(history)) =>
          /\ lastAlert' = "error"
          /\ IF history' = <<>> THEN FALSE
             ELSE history'[1] = HistoryEntry(currentResult')]_vars

\* C27: after a unit change the persisted unit system is the active one;
\* selecting the unit that is already active changes nothing (the settings
\* and the labels move only with the unit system or the default-radius
\* control); and the labels follow the active unit system, so that metric ->
\* imperial -> metric brings the unit system and the labels back.
UnitChangePersistsAndReverts ==
    [][/\ units' # units => settings'.units = units'
       /\ (units' = units /\ defaultRadius' = defaultRadius) =>
              /\ settings' = settings
              /\ unitLabel' = unitLabel
       /\ units' = "metric" => unitLabel' = "meters"
       /\ units' = "imperial" => unitLabel' = "miles"]_vars

\* C27 witness: the unit system is metric again after having been imperial
\* (the radius control shows what the double conversion left), and the
\* settings were saved under it.
BackToMetric ==
    /\ units = "metric"
    /\ unitLabel = "meters"
    /\ settings # NoSettings
    /\ radiusInput = Tenths(3058)

\* exactly one tab button and one tab content are active, those of one tab
OneTabActive(active) ==
    \E name \in Tabs :
        /\ active.buttons = {name}
        /\ active.contents = {c \in TabContents : ContentName(c) = name}
        /\ Cardinality(active.contents) = 1

\* C28: after switchTab(name) exactly one tab button and exactly one tab
\* content are active, those for name; and a successful replay of a history
\* record ends with the generate tab active and the result panel shown.
OneTabActiveAndReplayShowsResult ==
    [][/\ OneTabActive(activeTab')
       /\ Completes("replay") =>
              /\ activeTab' = [buttons |-> {"generate"}, contents |-> {"generate-tab"}]
              /\ resultShown']_vars

\* C28 witness: a record was replayed (the view built from the store) and
\* the generate tab is the active one.
ReplayedOnGenerateTab ==
    /\ lastOp.op = "replay"
    /\ activeTab.buttons = {"generate"}
    /\ resultShown
    /\ currentResult # NoResult
    /\ selectedLat = 10

\* C29: a record added while the fetch of a merge is outstanding is not
\* lost: when the payload arrives the merge combines with the store as it
\* then is, so the store it writes is the one a merge run at that moment
\* would write, and it holds every record added since the fetch was issued
\* unless the store came out full with no record older than the one dropped;
\* two overlapping merges therefore leave what running them one after the
\* other leaves.
ConcurrentAddSurvivesMerge ==
    [][Completes("syncArrived") =>
          /\ history' = syncHistoryFromServer(history, lastOp'.arg[2])
          /\ \A i \in 1..Len(history) :
                 NotIn(pendingSync[lastOp'.arg[1]].atStart, history[i]) =>
                     \/ ~NotIn(history', history[i])
                     \/ /\ Len(history') = HistoryCap
                        /\ \A j \in 1..Len(history') :
                               history'[j].timestamp >= history[i].timestamp]_vars

\* C29 witness: a merge has completed whose fetch was issued over an empty
\* store, a record generated while it was outstanding is in the store next
\* to the merged ones, and another fetch is still in flight.
AddDuringFetchKept ==
    /\ lastOp.op = "syncArrived"
    /\ lastOp.arg[2] = <<Valid(1), Valid(3)>>
    /\ Len(pendingSync) = 1
    /\ pendingSync[1].atStart = <<>>
    /\ Len(history) = 3
    /\ \E i \in 1..Len(history) : history[i].request # RemoteRequest(history[i].id)

\* C30: the rendered history list is always consistent with the store:
\* every rendered item's index designates, in the store, the record whose
\* id the item carries.
RenderedListMatchesStore ==
    Parses(history) =>
        \A k \in 1..Len(historyList) :
            IF historyList[k].index \in 1..Len(history)
            THEN history[historyList[k].index].id = historyList[k].id
            ELSE FALSE

\* C31: every location in the valid range can be used for generation: once
\* a location with latitude in [-90, 90] and longitude in [-180, 180] is
\* selected (latitude 0 or longitude 0 included), no step reports that no
\* location is selected.
ValidLocationIsUsable ==
    [][(/\ selectedLat # Null
        /\ selectedLng # Null
        /\ selectedLat >= 0 - 90 /\ selectedLat <= 90
        /\ selectedLng >= 0 - 180 /\ selectedLng <= 180
        /\ lastAlert' # lastAlert)
          => lastAlert' # "select-location"]_vars

(***************************************************************************)
(* Share links and the result-type buttons                                 *)
(***************************************************************************)
MaxShareOps == 3

\* data-type of the .type-btn buttons
ResultTypes == {"attractor", "void", "power", "blind_spot"}

\* a .type-btn is clicked: it becomes the active one, state.selectedType
\* follows, and a current result is shown again under the new type
SelectType(type) ==
    /\ selectedType' = type
    /\ resultShown' = IF currentResult # NoResult THEN TRUE ELSE resultShown
    /\ UNCHANGED <<conversion, gpxFile, exported, pendingSync, historyList, storeVars, settings, uiVars,
                   currentResult, activeTab, loading, pendingGen, sent, lastAlert, opsLeft>>

\* a URL parameter: absent, text parseFloat turns into a number, or other text
NoParam == [kind |-> "absent"]
NumberParam(v) == [kind |-> "number", value |-> v]
TextParam(t) == [kind |-> "text", value |-> t]

\* getUrlParams() of the links the model opens
ShareLinks ==
    {[lat |-> NumberParam(40), lng |-> NumberParam(0 - 74), radius |-> NoParam,
      mode |-> NoParam, type |-> NoParam],
     [lat |-> NumberParam(0), lng |-> NumberParam(0 - 74), radius |-> NumberParam(Tenths(500)),
      mode |-> TextParam("flower_power"), type |-> TextParam("void")],
     [lat |-> NumberParam(95), lng |-> NumberParam(200), radius |-> NoParam,
      mode |-> NoParam, type |-> NoParam],
     [lat |-> TextParam("north"), lng |-> NumberParam(0 - 74), radius |-> NumberParam(Tenths(500)),
      mode |-> NoParam, type |-> TextParam("void")],
     [lat |-> NoParam, lng |-> NoParam, radius |-> NoParam,
      mode |-> NoParam, type |-> TextParam("void")]}

\* checkShareLink() applies the parameters: both lat and lng present and
\* parseFloat of neither is NaN
ShareLinkApplies(params) ==
    /\ params.lat.kind = "number"
    /\ params.lng.kind = "number"

\* DOMContentLoaded on a URL carrying params: a fresh page, loadSettings(),
\* then checkShareLink()
OpenShareLink(params) ==
    /\ opsLeft > 0
    /\ IF ShareLinkApplies(params)
       THEN /\ setMapCenter(params.lat.value, params.lng.value)
            /\ radiusInput' = IF params.radius = NoParam
                              THEN loadSettings(settings).display
                              ELSE params.radius.value
            /\ modeSelect' = IF params.mode = NoParam THEN "standard"
                             ELSE params.mode.value
            /\ selectedType' = IF params.type = NoParam THEN "attractor"
                               ELSE params.type.value
       ELSE /\ setMapCenter(Null, Null)
            /\ radiusInput' = loadSettings(settings).display
            /\ modeSelect' = "standard"
            /\ selectedType' = "attractor"
    /\ units' = loadSettings(settings).units
    /\ unitLabel' = IF loadSettings(settings).threw THEN MarkupLabel
                    ELSE LabelAfter(MarkupLabel, loadSettings(settings).units)
    /\ defaultRadius' = loadSettings(settings).display
    /\ currentResult' = NoResult
    /\ resultShown' = FALSE
    /\ activeTab' = MarkupActive
    /\ loading' = FALSE
    /\ pendingGen' = <<>>
    /\ pendingSync' = <<>>
    /\ historyList' = updateHistoryDisplay(<<>>, history)
    /\ lastOp' = Op("shareLink", <<params>>)
    /\ opsLeft' = opsLeft - 1
    /\ UNCHANGED <<conversion, gpxFile, exported, history, importReport, settings, sent, lastAlert>>

InitShare == InitWith(MaxShareOps)

NextShare ==
    \/ \E lat \in {40, 91} : ParseAndSetLocation(lat, 0 - 74)
    \/ \E type \in ResultTypes : SelectType(type)
    \/ \E params \in ShareLinks : OpenShareLink(params)
    \/ GenerateClick
    \/ \E id \in {1, 3} : GenerateSucceeds(id)
    \/ \E index \in {1, 2} : LoadHistoryEntry(index)

SpecShare == InitShare /\ [][NextShare]_vars

\* C32: the selected location is always either unset or a latitude in
\* [-90, 90] with a longitude in [-180, 180], whatever sequence of typed
\* coordinates, opened share links and replays led to it.
LocationUnsetOrInRange ==
    \/ selectedLat = Null /\ selectedLng = Null
    \/ /\ selectedLat >= 0 - 90 /\ selectedLat <= 90
       /\ selectedLng >= 0 - 180 /\ selectedLng <= 180

\* C36: a replay sets the active result type from the record: a stored
\* record {id, timestamp, request, winners} carries no selected type, so
\* after every replay the active type is the default 'attractor', whichever
\* type button was selected before.
ReplaySetsTypeFromRecord ==
    [][Completes("replay") => selectedType' = "attractor"]_vars

\* C33: once a reset of the settings is confirmed, the radius the next
\* generation sends is the default 3000 m, whichever unit system is active,
\* and the persisted settings are gone, so that the next load falls back to
\* the defaults.
ResetRestoresDefaultRadius ==
    [][(Completes("resetSettings") /\ lastOp'.arg = <<TRUE>>)
         => /\ getRadiusInMeters' = Tenths(DefaultRadiusMeters)
            /\ settings' = NoSettings]_vars

(***************************************************************************)
(* Export to a JSON file and import of that file                           *)
(***************************************************************************)
MaxExportOps == 4

\* exportHistory(): JSON.stringify(history, null, 2) of a store that is not
\* empty; the records are JSON values already, and the file parses back to
\* the same array
exportHistory(h) == h

ExportHistory ==
    /\ opsLeft > 0
    /\ Parses(history)
    /\ IF Len(history) = 0
       THEN lastAlert' = "no-history" /\ UNCHANGED exported
       ELSE exported' = exportHistory(history) /\ UNCHANGED lastAlert
    /\ lastOp' = Op("export", <<>>)
    /\ opsLeft' = opsLeft - 1
    /\ UNCHANGED <<conversion, gpxFile, selectedType, pendingSync, historyList, history, importReport,
                   settings, uiVars, viewVars, loading, pendingGen, sent>>

\* importHistory() over a file of records: an entry with a truthy id that
\* the store did not hold when the import began is pushed as it is, then the
\* sort and the cut
ImportFilePushed(file, existingIds) ==
    LET New(entry) == entry.id # NoId /\ entry.id \notin existingIds
    IN SelectSeq(file, New)

ImportFileMerged(h, file) ==
    Truncate(SortByTimestampDesc(h \o ImportFilePushed(file, IdsOf(h))))

\* the user picks the file exported before
ImportExported ==
    /\ opsLeft > 0
    /\ exported # <<>>
    /\ Parses(history)
    /\ history' = ImportFileMerged(history, exported)
    /\ historyList' = updateHistoryDisplay(historyList, history')
    /\ importReport' = IF DisplayThrows(history')
                       THEN [outcome |-> "failed", reported |-> 0,
                             pushed |-> Len(ImportFilePushed(exported, IdsOf(history)))]
                       ELSE [outcome |-> "imported", reported |-> Len(exported),
                             pushed |-> Len(ImportFilePushed(exported, IdsOf(history)))]
    /\ lastAlert' = importReport'.outcome
    /\ lastOp' = Op("importExported", <<>>)
    /\ opsLeft' = opsLeft - 1
    /\ UNCHANGED <<conversion, gpxFile, selectedType, exported, pendingSync, settings, uiVars, viewVars,
                   loading, pendingGen, sent>>

\* entry.winners['attractor'] || entry.winners['blind_spot'] ||
\* Object.values(entry.winners)[0], for an entry that has a winner (the
\* records here hold one winner at most beside these two)
ChosenWinner(winners) ==
    IF "attractor" \in DOMAIN winners THEN winners["attractor"]
    ELSE IF "blind_spot" \in DOMAIN winners THEN winners["blind_spot"]
    ELSE winners[CHOOSE t \in DOMAIN winners : TRUE]

\* winner.result as showResult, displayResults and updateHistoryDisplay read
\* it: the point is held under coords
WinnerResult(point) == [coords |-> point]

\* a property read gives undefined when the object has no such property
Undefined == Null

PropertyOf(object, name) ==
    IF name \in DOMAIN object THEN object[name] ELSE Undefined

\* the coordinate the history list shows: result.coords.lat, result.coords.lng
ListedCoords(result) == [lat |-> result.coords.lat, lng |-> result.coords.lng]

\* <wpt lat="${result.lat}" lon="${result.lng}"> with name and time
Waypoint(entry) ==
    LET result == WinnerResult(ChosenWinner(entry.winners))
    IN [name |-> entry.id, lat |-> PropertyOf(result, "lat"),
        lon |-> PropertyOf(result, "lng"), time |-> entry.timestamp]

\* entry.id.slice and entry.request.mode of an entry that has a winner
GpxThrows(h) ==
    \E i \in 1..Len(h) :
        HasWinner(h[i]) /\ (h[i].id = NoId \/ h[i].request = NoRequest)

\* exportHistoryGpx(): one waypoint for each entry that has a winner
exportHistoryGpx(h) ==
    LET kept == SelectSeq(h, HasWinner)
    IN [k \in 1..Len(kept) |-> Waypoint(kept[k])]

ExportHistoryGpx ==
    /\ opsLeft > 0
    /\ Parses(history)
    /\ IF Len(history) = 0
       THEN /\ lastAlert' = "no-history"
            /\ lastOp' = Op("gpxEmpty", <<>>)
            /\ UNCHANGED gpxFile
       ELSE IF GpxThrows(history)
       THEN /\ lastOp' = Op("gpxThrew", <<>>)
            /\ UNCHANGED <<gpxFile, lastAlert>>
       ELSE /\ gpxFile' = exportHistoryGpx(history)
            /\ lastOp' = Op("gpx", <<>>)
            /\ UNCHANGED lastAlert
    /\ opsLeft' = opsLeft - 1
    /\ UNCHANGED <<conversion, exported, selectedType, pendingSync, historyList, history,
                   importReport, settings, uiVars, viewVars, loading, pendingGen, sent>>

InitExport == InitWith(MaxExportOps)

NextExport ==
    \/ InitUserLocation
    \/ GenerateClick
    \/ \E id \in {1, 3, 4, 5} : GenerateSucceeds(id)
    \/ ExportHistory
    \/ ExportHistoryGpx
    \/ ClearHistory(TRUE)
    \/ ImportExported

SpecExport == InitExport /\ [][NextExport]_vars

\* C34: export followed by import is lossless: importing the exported file
\* into the store it was exported from changes nothing, and importing it
\* into a cleared store restores exactly the exported sequence.
ExportImportLossless ==
    [][(Completes("importExported") /\ (history = exported \/ history = <<>>))
         => history' = exported]_vars

\* C35: the waypoint export emits exactly one waypoint for each stored
\* record that has a winner, in the order of the store, and none for a
\* record without a winner; the waypoint carries the coordinate of the
\* chosen winner (attractor, else blind_spot, else the first winner), the
\* one the history list shows for the record, and the record's timestamp.
WaypointPerRecordWithWinner ==
    [][Completes("gpx") =>
          LET kept == SelectSeq(history, HasWinner)
          IN /\ Len(gpxFile') = Len(kept)
             /\ \A k \in 1..Len(kept) :
                   /\ gpxFile'[k].name = kept[k].id
                   /\ gpxFile'[k].time = kept[k].timestamp
                   /\ gpxFile'[k].lat =
                          ListedCoords(WinnerResult(ChosenWinner(kept[k].winners))).lat
                   /\ gpxFile'[k].lon =
                          ListedCoords(WinnerResult(ChosenWinner(kept[k].winners))).lng]_vars

====
